---- MODULE Spec2Model ----
(***************************************************************************)
(* Order validation and placement pipeline of the Binance Futures testnet  *)
(* trading bot: bot/validators.py (parameter validation), bot/client.py    *)
(* (exchange connector) and bot/orders.py (OrderManager.place_order).      *)
(*                                                                         *)
(* Python strings are modelled as sequences of one-character strings, so   *)
(* that upper(), strip(), endswith(), len() and float() are computed the   *)
(* way the interpreter computes them.  float() is modelled on the grammar  *)
(* fragment  [ws] [sign] (digits [. digits] | . digits | nan | inf |       *)
(* infinity) [ws]; exponents and digit-group underscores do not occur in   *)
(* the inputs drawn below.                                                 *)
(***************************************************************************)
EXTENDS Integers, Sequences, FiniteSets, TLC

VARIABLES
    symbol,       \* place_order argument: raw symbol string
    side,         \* place_order argument: raw side string
    order_type,   \* place_order argument: raw order type string
    quantity,     \* place_order argument: raw quantity string
    price,        \* place_order argument: raw price string, or None
    pc,           \* position of the place_order call
    params,       \* the dict returned by validate_order_params
    symbol_info,  \* the value returned by client.get_symbol_info
    calls,        \* connector methods invoked by this call, in order
    requests,     \* order_params handed to futures_create_order, in order
    upstream,     \* what futures_create_order answered: a dict or an exception
    logged,       \* the fields written by _log_order_response
    outcome       \* how place_order ended: a returned dict or a raised error

VARIABLES
    command,        \* the CLI command run: order, test or price
    api_key,        \* BINANCE_TESTNET_API_KEY, or None when unset
    api_secret,     \* BINANCE_TESTNET_API_SECRET, or None when unset
    cli_pc,         \* position of the CLI command
    answer,         \* what the operator answered to click.confirm
    account_reply,  \* what GET /fapi/v2/account answered test_connection
    connected,      \* how client.test_connection() ended
    ticker_reply,   \* what GET /fapi/v1/ticker/price answered
    current_price,  \* the value returned by client.get_current_price
    exit_status     \* the process's exit status, once cli_pc is "Exited"

VARIABLES
    sign_secret,       \* self.api_secret of the signing client
    first_params,      \* a parameter mapping handed to _generate_signature
    first_signature,   \* the signature returned for it
    second_params,     \* another mapping signed with the same secret
    second_signature,  \* the signature returned for it
    account_params     \* the params dict test_connection sends

place_order_vars == <<symbol, side, order_type, quantity, price, pc, params, symbol_info,
                      calls, requests, upstream, logged, outcome>>

cli_vars == <<command, api_key, api_secret, cli_pc, answer, account_reply, connected,
              ticker_reply, current_price, exit_status>>

sign_vars == <<sign_secret, first_params, first_signature, second_params,
               second_signature, account_params>>

vars == <<place_order_vars, cli_vars, sign_vars>>

inputs == <<symbol, side, order_type, quantity, price>>

(***************************************************************************)
(* Python values                                                           *)
(***************************************************************************)

\* None where a string is expected (price: Optional[str]).
None == <<"None">>

\* None where a dict is expected (get_symbol_info -> Optional[Dict]).
NoneDict == [None |-> TRUE]

\* None where a float is expected (get_current_price -> Optional[float]).
NoneFloat == [cls |-> "None", neg |-> FALSE, num |-> 0, den |-> 1]

\* no HTTP exchange has taken place
NoHttpReply == [kind |-> "none", status_code |-> 0, json |-> [none |-> TRUE]]

Lowers == <<"a","b","c","d","e","f","g","h","i","j","k","l","m",
            "n","o","p","q","r","s","t","u","v","w","x","y","z">>

Uppers == <<"A","B","C","D","E","F","G","H","I","J","K","L","M",
            "N","O","P","Q","R","S","T","U","V","W","X","Y","Z">>

Whitespace == {" ", "\t", "\n", "\r"}

Digits == <<"0","1","2","3","4","5","6","7","8","9">>

UpperChar(c) ==
    IF \E i \in 1..Len(Lowers) : Lowers[i] = c
    THEN Uppers[CHOOSE i \in 1..Len(Lowers) : Lowers[i] = c]
    ELSE c

LowerChar(c) ==
    IF \E i \in 1..Len(Uppers) : Uppers[i] = c
    THEN Lowers[CHOOSE i \in 1..Len(Uppers) : Uppers[i] = c]
    ELSE c

\* str.upper()
Upper(s) == [i \in 1..Len(s) |-> UpperChar(s[i])]

\* str.lower()
Lower(s) == [i \in 1..Len(s) |-> LowerChar(s[i])]

RECURSIVE LStrip(_)
LStrip(s) ==
    IF s # <<>> /\ Head(s) \in Whitespace THEN LStrip(Tail(s)) ELSE s

RECURSIVE RStrip(_)
RStrip(s) ==
    IF s # <<>> /\ s[Len(s)] \in Whitespace
    THEN RStrip(SubSeq(s, 1, Len(s) - 1))
    ELSE s

\* str.strip()
Strip(s) == RStrip(LStrip(s))

\* str.endswith(suffix)
EndsWith(s, suffix) ==
    /\ Len(s) >= Len(suffix)
    /\ SubSeq(s, Len(s) - Len(suffix) + 1, Len(s)) = suffix

USDT == <<"U","S","D","T">>
BUY == <<"B","U","Y">>
SELL == <<"S","E","L","L">>
MARKET == <<"M","A","R","K","E","T">>
LIMIT == <<"L","I","M","I","T">>
TIMESTAMP == <<"t","i","m","e","s","t","a","m","p">>
SIGNATURE == <<"s","i","g","n","a","t","u","r","e">>

\* position of a character in the ordering of lower-case letters
LetterRank(c) == CHOOSE i \in 1..Len(Lowers) : Lowers[i] = c

\* k1 < k2 for keys that are single lower-case words differing in their
\* first letter
KeyBefore(k1, k2) == LetterRank(k1[1]) < LetterRank(k2[1])

(***************************************************************************)
(* float(): the parsed value is a record                                   *)
(*   [cls |-> "finite" | "inf" | "nan", neg |-> BOOLEAN, num, den]         *)
(* standing for (-1)^neg * num / den, or NotANumber for a ValueError.      *)
(***************************************************************************)

NotANumber == [cls |-> "error", neg |-> FALSE, num |-> 0, den |-> 1]

IsDigit(c) == \E i \in 1..Len(Digits) : Digits[i] = c

DigitVal(c) == (CHOOSE i \in 1..Len(Digits) : Digits[i] = c) - 1

RECURSIVE DigitsToNat(_)
DigitsToNat(s) ==
    IF s = <<>> THEN 0
    ELSE 10 * DigitsToNat(SubSeq(s, 1, Len(s) - 1)) + DigitVal(s[Len(s)])

RECURSIVE Pow10(_)
Pow10(n) == IF n = 0 THEN 1 ELSE 10 * Pow10(n - 1)

AllDigits(s) == \A i \in 1..Len(s) : IsDigit(s[i])

\* digits [. digits] | . digits, with at least one digit
ParseDecimal(body, neg) ==
    LET dots == {i \in 1..Len(body) : body[i] = "."}
    IN  IF dots = {}
        THEN IF body # <<>> /\ AllDigits(body)
             THEN [cls |-> "finite", neg |-> neg, num |-> DigitsToNat(body), den |-> 1]
             ELSE NotANumber
        ELSE LET d == CHOOSE i \in dots : \A j \in dots : i <= j
                 whole == SubSeq(body, 1, d - 1)
                 frac == SubSeq(body, d + 1, Len(body))
             IN  IF AllDigits(whole) /\ AllDigits(frac) /\ Len(whole) + Len(frac) > 0
                 THEN [cls |-> "finite", neg |-> neg,
                       num |-> DigitsToNat(whole \o frac), den |-> Pow10(Len(frac))]
                 ELSE NotANumber

\* float(text) for a str argument
ParseFloat(text) ==
    LET t == Strip(text)
        signed == t # <<>> /\ t[1] \in {"+", "-"}
        neg == t # <<>> /\ t[1] = "-"
        body == IF signed THEN Tail(t) ELSE t
        word == Lower(body)
    IN  IF word = <<"n","a","n">>
        THEN [cls |-> "nan", neg |-> neg, num |-> 0, den |-> 1]
        ELSE IF word \in {<<"i","n","f">>, <<"i","n","f","i","n","i","t","y">>}
        THEN [cls |-> "inf", neg |-> neg, num |-> 0, den |-> 1]
        ELSE ParseDecimal(body, neg)

\* x <= 0 on floats: every comparison with NaN is False, -0.0 <= 0 is True
LeqZero(x) ==
    \/ x.cls = "finite" /\ (x.neg \/ x.num = 0)
    \/ x.cls = "inf" /\ x.neg

\* a finite number strictly greater than zero
IsFinitePositive(x) == x.cls = "finite" /\ ~x.neg /\ x.num > 0

(***************************************************************************)
(* bot/validators.py.  A validator yields Ok(value) or Fail(message),      *)
(* Fail standing for  raise ValidationError(message).                      *)
(***************************************************************************)

Ok(v) == [ok |-> TRUE, value |-> v, msg |-> ""]

Fail(m) == [ok |-> FALSE, value |-> <<>>, msg |-> m]

validate_symbol_NoSuffixCheck(sym) ==
    IF sym = <<>> THEN Fail("Symbol cannot be empty")
    ELSE LET s == Strip(Upper(sym))
         IN  IF Len(s) < 5 THEN Fail("Symbol is too short")
             ELSE Ok(s)

validate_symbol(sym) ==
    IF sym = <<>> THEN Fail("Symbol cannot be empty")
    ELSE LET s == Strip(Upper(sym))
         IN  IF ~EndsWith(s, USDT)
             THEN Fail("Symbol must end with 'USDT' for USDT-M futures")
             ELSE IF Len(s) < 5 THEN Fail("Symbol is too short")
             ELSE Ok(s)

validate_side(sd) ==
    LET s == Strip(Upper(sd))
    IN  IF s \notin {BUY, SELL} THEN Fail("Side must be 'BUY' or 'SELL'")
        ELSE Ok(s)

validate_order_type(ot) ==
    LET t == Strip(Upper(ot))
    IN  IF t \notin {MARKET, LIMIT} THEN Fail("Order type must be 'MARKET' or 'LIMIT'")
        ELSE Ok(t)

validate_quantity_AcceptsNonPositive(q) ==
    LET qty == ParseFloat(q)
    IN  IF qty = NotANumber THEN Fail("Quantity must be a valid number")
        ELSE Ok(qty)

validate_quantity(q) ==
    LET qty == ParseFloat(q)
    IN  IF qty = NotANumber THEN Fail("Quantity must be a valid number")
        ELSE IF LeqZero(qty) THEN Fail("Quantity must be greater than 0")
        ELSE Ok(qty)

\* Ok(None) is the "not provided" result.
validate_price(p) ==
    IF p = None \/ p = <<>> THEN Ok(None)
    ELSE LET v == ParseFloat(p)
         IN  IF v = NotANumber THEN Fail("Price must be a valid number")
             ELSE IF LeqZero(v) THEN Fail("Price must be greater than 0")
             ELSE Ok(v)

\* The dict literal evaluates its four values in source order; the first
\* ValidationError raised ends the call.
validate_order_params_SideFirst(sym, sd, ot, q, p) ==
    LET vs == validate_symbol(sym)
        vd == validate_side(sd)
        vt == validate_order_type(ot)
        vq == validate_quantity(q)
        validated == [symbol |-> vs.value, side |-> vd.value,
                      type |-> vt.value, quantity |-> vq.value]
    IN  IF ~vd.ok THEN vd
        ELSE IF ~vs.ok THEN vs
        ELSE IF ~vt.ok THEN vt
        ELSE IF ~vq.ok THEN vq
        ELSE IF vt.value = LIMIT
        THEN IF p = None \/ p = <<>>
             THEN Fail("Price is required for LIMIT orders")
             ELSE LET vp == validate_price(p)
                  IN  IF ~vp.ok THEN vp
                      ELSE Ok(validated @@ [price |-> vp.value])
        ELSE IF p # None /\ p # <<>>
        THEN Fail("Price should not be specified for MARKET orders")
        ELSE Ok(validated)

validate_order_params_MarketPriceIgnored(sym, sd, ot, q, p) ==
    LET vs == validate_symbol(sym)
        vd == validate_side(sd)
        vt == validate_order_type(ot)
        vq == validate_quantity(q)
        validated == [symbol |-> vs.value, side |-> vd.value,
                      type |-> vt.value, quantity |-> vq.value]
    IN  IF ~vs.ok THEN vs
        ELSE IF ~vd.ok THEN vd
        ELSE IF ~vt.ok THEN vt
        ELSE IF ~vq.ok THEN vq
        ELSE IF vt.value = LIMIT
        THEN IF p = None \/ p = <<>>
             THEN Fail("Price is required for LIMIT orders")
             ELSE LET vp == validate_price(p)
                  IN  IF ~vp.ok THEN vp
                      ELSE Ok(validated @@ [price |-> vp.value])
        ELSE Ok(validated)

validate_order_params(sym, sd, ot, q, p) ==
    LET vs == validate_symbol(sym)
        vd == validate_side(sd)
        vt == validate_order_type(ot)
        vq == validate_quantity(q)
        validated == [symbol |-> vs.value, side |-> vd.value,
                      type |-> vt.value, quantity |-> vq.value]
    IN  IF ~vs.ok THEN vs
        ELSE IF ~vd.ok THEN vd
        ELSE IF ~vt.ok THEN vt
        ELSE IF ~vq.ok THEN vq
        ELSE IF vt.value = LIMIT
        THEN IF p = None \/ p = <<>>
             THEN Fail("Price is required for LIMIT orders")
             ELSE LET vp == validate_price(p)
                  IN  IF ~vp.ok THEN vp
                      ELSE Ok(validated @@ [price |-> vp.value])
        ELSE IF p # None /\ p # <<>>
        THEN Fail("Price should not be specified for MARKET orders")
        ELSE Ok(validated)

(***************************************************************************)
(* Exceptions and the ways a call ends                                     *)
(***************************************************************************)

\* An exception object: its class, and what it carries.
Exc(cls, code, msg, arg) == [cls |-> cls, status_code |-> code, msg |-> msg, arg |-> arg]

ValidationError(msg, arg) == Exc("ValidationError", 0, msg, arg)

NoException == Exc("", 0, "", <<>>)

Pending == [kind |-> "pending", exc |-> NoException, value |-> NoneDict]

Raise(e) == [kind |-> "raise", exc |-> e, value |-> NoneDict]

Return(v) == [kind |-> "return", exc |-> NoException, value |-> v]

\* dict.get(key, default)
DictGet(d, key, default) == IF key \in DOMAIN d THEN d[key] ELSE default

(***************************************************************************)
(* The exchange, as seen through HTTP: what it may answer                  *)
(***************************************************************************)

\* longest instrument list of an exchangeInfo answer
MaxInstruments == 2

\* how many fields an order response may lack
MaxOmitted == 1

\* int(time.time() * 1000) at call time, as a tick of an abstract clock
MaxTimestamp == 2

BTCUSDT == <<"B","T","C","U","S","D","T">>
ETHUSDT == <<"E","T","H","U","S","D","T">>

Instruments ==
    [symbol : {BTCUSDT, ETHUSDT}, status : {"TRADING", "BREAK"}]
        \cup [symbol : {BTCUSDT, ETHUSDT}]
        \cup {[status |-> "TRADING"]}

RECURSIVE SeqsUpTo(_, _)
SeqsUpTo(S, n) ==
    IF n = 0 THEN {<<>>}
    ELSE LET shorter == SeqsUpTo(S, n - 1)
         IN  shorter \cup {Append(q, x) : q \in shorter, x \in S}

\* GET /fapi/v1/exchangeInfo: an exception (transport, JSON), a status other
\* than 200, a 200 body without 'symbols', or a 200 body listing instruments.
ExchangeInfoReplies ==
    {[kind |-> "exception", status_code |-> 0, json |-> [none |-> TRUE]]}
        \cup {[kind |-> "response", status_code |-> c, json |-> [none |-> TRUE]] : c \in {500, 429}}
        \cup {[kind |-> "response", status_code |-> 200, json |-> [serverTime |-> 1]]}
        \cup {[kind |-> "response", status_code |-> 200, json |-> [symbols |-> l]] :
                l \in SeqsUpTo(Instruments, MaxInstruments)}

ResponseFields ==
    {"orderId", "clientOrderId", "symbol", "status", "type", "side", "price",
     "origQty", "executedQty", "timeInForce", "updateTime"}

\* what the exchange answers for each field of an accepted order
ExchangeOrder(status, avg) ==
    [orderId |-> "4306", clientOrderId |-> "x-Cb7ytekJ", symbol |-> "BTCUSDT",
     status |-> status, type |-> "MARKET", side |-> "BUY", price |-> "0.00",
     origQty |-> "0.010", executedQty |-> "0.000", timeInForce |-> "GTC",
     updateTime |-> "1699999999", avgPrice |-> avg]

Restrict(f, S) == [k \in S |-> f[k]]

OrderResponses ==
    {Restrict(ExchangeOrder(st, avg), (ResponseFields \ omitted) \cup extra) :
        st \in {"NEW", "FILLED"}, avg \in {"0", "43000.10"},
        omitted \in {D \in SUBSET ResponseFields : Cardinality(D) <= MaxOmitted},
        extra \in {{}, {"avgPrice"}}}

\* what futures_create_order may raise
ConnectorErrors ==
    {Exc("BinanceAPIException", 400, "Invalid symbol.", <<>>),
     Exc("BinanceAPIException", 400, "Margin is insufficient.", <<>>),
     Exc("BinanceAPIException", 401, "Invalid API-key, IP, or permissions for action.", <<>>),
     Exc("BinanceRequestException", 0, "Invalid Response", <<>>),
     Exc("ConnectionError", 0, "Connection aborted.", <<>>),
     Exc("ReadTimeout", 0, "Read timed out.", <<>>)}

NoReply == [kind |-> "none", body |-> NoneDict, exc |-> NoException]

CreateOrderReplies ==
    {[kind |-> "response", body |-> b, exc |-> NoException] : b \in OrderResponses}
        \cup {[kind |-> "raise", body |-> NoneDict, exc |-> e] : e \in ConnectorErrors}

(***************************************************************************)
(* bot/client.py: BinanceTestnetClient                                     *)
(***************************************************************************)

\* for s in data.get('symbols', []): if s['symbol'] == symbol: return s
\* A listed dict without 'symbol' raises KeyError, which the method's
\* except clause turns into None.
RECURSIVE ScanSymbols(_, _)
ScanSymbols(list, sym) ==
    IF list = <<>> THEN NoneDict
    ELSE IF "symbol" \notin DOMAIN Head(list) THEN NoneDict
    ELSE IF Head(list).symbol = sym THEN Head(list)
    ELSE ScanSymbols(Tail(list), sym)

get_symbol_info(sym, reply) ==
    IF reply.kind = "exception" THEN NoneDict
    ELSE IF reply.status_code = 200
    THEN ScanSymbols(DictGet(reply.json, "symbols", <<>>), sym)
    ELSE NoneDict

\* The three except clauses log and re-raise the exception they caught.
place_market_order_WrapsError(sym, sd, qty, now, reply) ==
    [method |-> "place_market_order",
     order_params |-> [symbol |-> sym, side |-> sd, type |-> MARKET,
                       quantity |-> qty, timestamp |-> now],
     result |-> IF reply.kind = "raise"
                THEN Raise(Exc("Exception", 0, reply.exc.msg, <<>>))
                ELSE Return(reply.body)]

place_market_order(sym, sd, qty, now, reply) ==
    [method |-> "place_market_order",
     order_params |-> [symbol |-> sym, side |-> sd, type |-> MARKET,
                       quantity |-> qty, timestamp |-> now],
     result |-> IF reply.kind = "raise" THEN Raise(reply.exc) ELSE Return(reply.body)]

place_limit_order(sym, sd, qty, prc, time_in_force, now, reply) ==
    [method |-> "place_limit_order",
     order_params |-> [symbol |-> sym, side |-> sd, type |-> LIMIT,
                       quantity |-> qty, price |-> prc,
                       timeInForce |-> time_in_force, timestamp |-> now],
     result |-> IF reply.kind = "raise" THEN Raise(reply.exc) ELSE Return(reply.body)]

(***************************************************************************)
(* bot/client.py: request signing, the account check and the ticker        *)
(*                                                                         *)
(* A parameter dict is the sequence of its <<key, value>> items in         *)
(* insertion order.  The HMAC-SHA256 hex digest is kept symbolic: the      *)
(* digest of (key, message) is the triple naming them, so two digests are  *)
(* equal exactly when key and message are (no collisions).                 *)
(***************************************************************************)

\* str(n) for an int n >= 0
RECURSIVE IntToStr(_)
IntToStr(n) ==
    IF n < 10 THEN <<Digits[n + 1]>>
    ELSE IntToStr(n \div 10) \o <<Digits[(n % 10) + 1]>>

\* characters urllib.parse.quote_plus leaves as they are
Unreserved ==
    {Lowers[i] : i \in 1..Len(Lowers)} \cup {Uppers[i] : i \in 1..Len(Uppers)}
        \cup {Digits[i] : i \in 1..Len(Digits)} \cup {"_", ".", "-", "~"}

\* quote_plus of one character (of those the inputs use)
QuoteChar(c) ==
    IF c \in Unreserved THEN <<c>>
    ELSE IF c = " " THEN <<"+">>
    ELSE IF c = "&" THEN <<"%", "2", "6">>
    ELSE IF c = "=" THEN <<"%", "3", "D">>
    ELSE IF c = "+" THEN <<"%", "2", "B">>
    ELSE <<"%", "2", "5">>

RECURSIVE QuotePlus(_)
QuotePlus(str) ==
    IF str = <<>> THEN <<>> ELSE QuoteChar(Head(str)) \o QuotePlus(Tail(str))

\* urllib.parse.urlencode(params): the items in the dict's own order,
\* each as quote_plus(key)=quote_plus(value), joined by '&'
RECURSIVE urlencode(_)
urlencode(items) ==
    IF items = <<>> THEN <<>>
    ELSE LET item == QuotePlus(Head(items)[1]) \o <<"=">> \o QuotePlus(Head(items)[2])
         IN  IF Len(items) = 1 THEN item
             ELSE item \o <<"&">> \o urlencode(Tail(items))

\* hmac.new(key, msg, hashlib.sha256).hexdigest()
hmac_sha256_hexdigest(key, msg) == <<"hmac-sha256", key, msg>>

\* the items sorted by key (keys are unique)
RECURSIVE SortedByKey(_)
SortedByKey(items) ==
    IF items = <<>> THEN <<>>
    ELSE LET least == CHOOSE i \in 1..Len(items) :
                         \A j \in (1..Len(items)) \ {i} :
                            KeyBefore(items[i][1], items[j][1])
             rest == [k \in 1..(Len(items) - 1) |->
                         IF k < least THEN items[k] ELSE items[k + 1]]
         IN  <<items[least]>> \o SortedByKey(rest)

generate_signature_SortsKeys(secret, items) ==
    hmac_sha256_hexdigest(secret, urlencode(SortedByKey(items)))

generate_signature(secret, items) ==
    hmac_sha256_hexdigest(secret, urlencode(items))

\* test_connection: params = {'timestamp': timestamp};
\* params['signature'] = self._generate_signature(params)
account_request(secret, now) ==
    LET request_params == <<<<TIMESTAMP, IntToStr(now)>>>>
    IN  Append(request_params, <<SIGNATURE, generate_signature(secret, request_params)>>)

\* GET /fapi/v2/account: an exception, or a response with a status code
AccountReplies ==
    {[kind |-> "exception", status_code |-> 0, json |-> [none |-> TRUE]]}
        \cup {[kind |-> "response", status_code |-> c, json |-> [none |-> TRUE]] :
                c \in {200, 204, 401, 500}}

\* The try block covers the building of the request and its sending; a
\* secret that is None makes the signing raise AttributeError.
test_connection_AcceptsAny2xx(secret, reply) ==
    IF secret = None \/ reply.kind = "exception" THEN Return(FALSE)
    ELSE IF reply.status_code >= 200 /\ reply.status_code < 300 THEN Return(TRUE)
    ELSE Return(FALSE)

test_connection(secret, reply) ==
    IF secret = None \/ reply.kind = "exception" THEN Return(FALSE)
    ELSE IF reply.status_code = 200 THEN Return(TRUE)
    ELSE Return(FALSE)

\* GET /fapi/v1/ticker/price: an exception, a status other than 200, or a
\* 200 body with or without a 'price' entry
TickerReplies ==
    {[kind |-> "exception", status_code |-> 0, json |-> [none |-> TRUE]]}
        \cup {[kind |-> "response", status_code |-> c, json |-> [none |-> TRUE]] : c \in {400, 500}}
        \cup {[kind |-> "response", status_code |-> 200, json |-> [symbol |-> "BTCUSDT"]]}
        \cup {[kind |-> "response", status_code |-> 200, json |-> [price |-> p]] :
                p \in {<<"4","3","0","0","0",".","5">>, <<"0",".","0","0">>, <<"a","b","c">>}}

\* float(data['price']); KeyError and ValueError end in the except clause
get_current_price(reply) ==
    IF reply.kind = "exception" THEN NoneFloat
    ELSE IF reply.status_code = 200
    THEN IF "price" \notin DOMAIN reply.json THEN NoneFloat
         ELSE IF ParseFloat(reply.json.price) = NotANumber THEN NoneFloat
         ELSE ParseFloat(reply.json.price)
    ELSE NoneFloat

\* truth value of an Optional[float]: None and 0.0 are false
Truthy(x) == x # NoneFloat /\ ~(x.cls = "finite" /\ x.num = 0)

(***************************************************************************)
(* bot/orders.py: OrderManager                                             *)
(***************************************************************************)

\* The lines written to the log, by field; 'N/A' where the response lacks one.
log_order_response(response) ==
    [f \in ResponseFields \cup
           (IF "avgPrice" \in DOMAIN response /\ response["avgPrice"] \notin {"0", ""}
            THEN {"avgPrice"} ELSE {})
       |-> DictGet(response, f, "N/A")]

\* place_order, after get_symbol_info returned: the two tradability raises.
check_tradable_IgnoresStatus(info, sym) ==
    IF info = NoneDict \/ DOMAIN info = {}
    THEN Raise(ValidationError("Symbol {} not found or not tradable", sym))
    ELSE Pending

check_tradable_OneMessage(info, sym) ==
    IF info = NoneDict \/ DOMAIN info = {}
    THEN Raise(ValidationError("Symbol {} not found or not tradable", sym))
    ELSE IF DictGet(info, "status", "None") # "TRADING"
    THEN Raise(ValidationError("Symbol {} not found or not tradable", sym))
    ELSE Pending

check_tradable(info, sym) ==
    IF info = NoneDict \/ DOMAIN info = {}
    THEN Raise(ValidationError("Symbol {} not found or not tradable", sym))
    ELSE IF DictGet(info, "status", "None") # "TRADING"
    THEN Raise(ValidationError("Symbol {} is not currently trading", sym))
    ELSE Pending

\* _place_market_order / _place_limit_order: log the response, return it.
finish_order_Normalizes(sent) ==
    IF sent.result.kind = "raise" THEN sent.result
    ELSE Return([f \in ResponseFields |-> DictGet(sent.result.value, f, "N/A")])

finish_order(sent) == sent.result

\* if params['type'] == 'MARKET': ... else: ...
dispatch(p, now, reply) ==
    IF p.type = MARKET
    THEN place_market_order(p.symbol, p.side, p.quantity, now, reply)
    ELSE place_limit_order(p.symbol, p.side, p.quantity, p.price, "GTC", now, reply)

(***************************************************************************)
(* Inputs of a place_order call                                            *)
(***************************************************************************)

SymbolPrefixes ==
    {<<>>, <<" ">>, <<"b","t","c">>, <<" ","E","T","H">>, <<"X">>}

SymbolSuffixes ==
    {<<>>, USDT, <<"u","s","d","t"," ">>, <<"U","S","D">>, <<"U","S","D","T","X">>}

SymbolInputs == {p \o s : p \in SymbolPrefixes, s \in SymbolSuffixes}

SideInputs == {BUY, <<"s","e","l","l"," ">>, <<"H","O","L","D">>, <<>>}

TypeInputs == {MARKET, <<" ","l","i","m","i","t">>, <<"S","T","O","P">>}

QuantityInputs ==
    {<<"0",".","0","1">>, <<" ","1"," ">>, <<"0">>, <<"-","1">>, <<"-","0",".","0">>,
     <<"a","b","c">>, <<>>, <<"n","a","n">>, <<"i","n","f">>, <<"-","i","n","f">>}

PriceInputs ==
    {None, <<>>, <<"2","5","0","0",".","5">>, <<"0">>, <<"-","5">>, <<"a","b","c">>,
     <<"N","a","N">>, <<"I","n","f","i","n","i","t","y">>}

(***************************************************************************)
(* One OrderManager.place_order call                                       *)
(***************************************************************************)

\* no CLI command is running: place_order is called directly
CliNotRunning ==
    /\ command = "none"
    /\ api_key = None
    /\ api_secret = None
    /\ cli_pc = "NotRunning"
    /\ answer = "none"
    /\ account_reply = NoHttpReply
    /\ connected = Pending
    /\ ticker_reply = NoHttpReply
    /\ current_price = NoneFloat
    /\ exit_status = 0

\* nothing is being signed
SignerNotRunning ==
    /\ sign_secret = None
    /\ first_params = <<>>
    /\ first_signature = None
    /\ second_params = <<>>
    /\ second_signature = None
    /\ account_params = <<>>

Init ==
    /\ symbol \in SymbolInputs
    /\ side \in SideInputs
    /\ order_type \in TypeInputs
    /\ quantity \in QuantityInputs
    /\ price \in PriceInputs
    /\ pc = "Received"
    /\ params = NoneDict
    /\ symbol_info = NoneDict
    /\ calls = <<>>
    /\ requests = <<>>
    /\ upstream = NoReply
    /\ logged = NoneDict
    /\ outcome = Pending
    /\ CliNotRunning
    /\ SignerNotRunning

\* params = validate_order_params(symbol, side, order_type, quantity, price)
Validate ==
    /\ pc = "Received"
    /\ LET v == validate_order_params(symbol, side, order_type, quantity, price)
       IN  IF v.ok
           THEN /\ params' = v.value
                /\ pc' = "Validated"
                /\ outcome' = outcome
           ELSE /\ params' = params
                /\ pc' = "Done"
                /\ outcome' = Raise(ValidationError(v.msg, <<>>))
    /\ UNCHANGED <<inputs, symbol_info, calls, requests, upstream, logged>>

\* symbol_info = self.client.get_symbol_info(params['symbol']), and the
\* two checks on it
CheckTradability ==
    /\ pc = "Validated"
    /\ \E reply \in ExchangeInfoReplies :
          LET info == get_symbol_info(params.symbol, reply)
              verdict == check_tradable(info, params.symbol)
          IN  /\ symbol_info' = info
              /\ calls' = Append(calls, "get_symbol_info")
              /\ outcome' = verdict
              /\ pc' = IF verdict.kind = "raise" THEN "Done" ELSE "TradabilityChecked"
    /\ UNCHANGED <<inputs, params, requests, upstream, logged>>

\* a second attempt after a failed placement
Dispatch_RetriesOnError ==
    /\ pc = "TradabilityChecked"
    /\ \E now \in 1..MaxTimestamp, reply \in CreateOrderReplies :
          LET sent == dispatch(params, now, reply)
              again == sent.result.kind = "raise" /\ requests = <<>>
          IN  /\ calls' = Append(calls, sent.method)
              /\ requests' = Append(requests, sent.order_params)
              /\ upstream' = reply
              /\ logged' = IF sent.result.kind = "return"
                           THEN log_order_response(sent.result.value)
                           ELSE logged
              /\ outcome' = IF again THEN outcome ELSE finish_order(sent)
              /\ pc' = IF again THEN "TradabilityChecked" ELSE "Done"
    /\ UNCHANGED <<inputs, params, symbol_info>>

\* place_order lines 60-64: one order-creation call, whose result or error
\* is what place_order returns or raises
Dispatch ==
    /\ pc = "TradabilityChecked"
    /\ \E now \in 1..MaxTimestamp, reply \in CreateOrderReplies :
          LET sent == dispatch(params, now, reply)
          IN  /\ calls' = Append(calls, sent.method)
              /\ requests' = Append(requests, sent.order_params)
              /\ upstream' = reply
              /\ logged' = IF sent.result.kind = "return"
                           THEN log_order_response(sent.result.value)
                           ELSE logged
              /\ outcome' = finish_order(sent)
              /\ pc' = "Done"
    /\ UNCHANGED <<inputs, params, symbol_info>>

PlaceOrderStep == Validate \/ CheckTradability \/ Dispatch

Next == PlaceOrderStep /\ UNCHANGED <<cli_vars, sign_vars>>

Spec == Init /\ [][Next]_vars

(***************************************************************************)
(* cli.py: one run of a command (order, test or price)                     *)
(***************************************************************************)

\* click.Choice(['BUY', 'SELL']) and click.Choice(['MARKET', 'LIMIT']):
\* the command body only runs with one of the choices
CliSideInputs == {BUY, SELL}

CliTypeInputs == {MARKET, LIMIT}

KeyInputs == {None, <<>>, <<"k","e","y">>}

SecretInputs == {None, <<"s","e","c","r","e","t">>}

CliInit ==
    /\ command \in {"order", "test", "price"}
    /\ symbol \in IF command = "order" THEN SymbolInputs
                  ELSE IF command = "price" THEN {BTCUSDT, <<"e","t","h","u","s","d","t">>}
                  ELSE {BTCUSDT}
    /\ side \in IF command = "order" THEN CliSideInputs ELSE {BUY}
    /\ order_type \in IF command = "order" THEN CliTypeInputs ELSE {MARKET}
    /\ quantity \in IF command = "order" THEN QuantityInputs ELSE {<<"1">>}
    /\ price \in IF command = "order" THEN PriceInputs ELSE {None}
    /\ api_key \in KeyInputs
    /\ api_secret \in SecretInputs
    /\ cli_pc = "Start"
    /\ answer = "none"
    /\ account_reply = NoHttpReply
    /\ connected = Pending
    /\ ticker_reply = NoHttpReply
    /\ current_price = NoneFloat
    /\ exit_status = 0
    /\ pc = "NotCalled"
    /\ params = NoneDict
    /\ symbol_info = NoneDict
    /\ calls = <<>>
    /\ requests = <<>>
    /\ upstream = NoReply
    /\ logged = NoneDict
    /\ outcome = Pending
    /\ SignerNotRunning

\* get_api_credentials: if not api_key or not api_secret: sys.exit(1)
credentials_found(key, secret) == key \notin {None, <<>>} /\ secret \notin {None, <<>>}

GetCredentials ==
    /\ cli_pc = "Start"
    /\ IF credentials_found(api_key, api_secret)
       THEN /\ cli_pc' = IF command = "price" THEN "FetchPrice" ELSE "TestConnection"
            /\ exit_status' = exit_status
       ELSE /\ cli_pc' = "Exited"
            /\ exit_status' = 1
    /\ UNCHANGED <<place_order_vars, sign_vars, command, api_key, api_secret, answer,
                   account_reply, connected, ticker_reply, current_price>>

\* order and test: client.test_connection() and the branch on its result
TestConnection ==
    /\ cli_pc = "TestConnection"
    /\ \E reply \in AccountReplies :
          LET result == test_connection(api_secret, reply)
          IN  /\ account_reply' = reply
              /\ connected' = result
              /\ calls' = Append(calls, "test_connection")
              /\ IF result.kind = "return" /\ result.value
                 THEN /\ cli_pc' = IF command = "order" THEN "Confirm" ELSE "TestPrice"
                      /\ exit_status' = exit_status
                 ELSE /\ cli_pc' = "Exited"
                      /\ exit_status' = 1
    /\ UNCHANGED <<inputs, pc, params, symbol_info, requests, upstream, logged, outcome,
                   sign_vars, command, api_key, api_secret, answer, ticker_reply,
                   current_price>>

\* click.confirm: True, False, or click.Abort (a RuntimeError) on EOF or
\* interrupt, which the except Exception clause turns into sys.exit(1)
ConfirmAnswers == {"yes", "no", "abort"}

after_confirm_IgnoresAnswer(ans) ==
    IF ans = "abort" THEN [next |-> "Exited", status |-> 1]
    ELSE [next |-> "PlaceOrder", status |-> 0]

after_confirm(ans) ==
    IF ans = "yes" THEN [next |-> "PlaceOrder", status |-> 0]
    ELSE IF ans = "no" THEN [next |-> "Exited", status |-> 0]
    ELSE [next |-> "Exited", status |-> 1]

Confirm ==
    /\ cli_pc = "Confirm"
    /\ \E ans \in ConfirmAnswers :
          /\ answer' = ans
          /\ cli_pc' = after_confirm(ans).next
          /\ exit_status' = after_confirm(ans).status
          /\ pc' = IF after_confirm(ans).next = "PlaceOrder" THEN "Received" ELSE pc
    /\ UNCHANGED <<inputs, params, symbol_info, calls, requests, upstream, logged, outcome,
                   sign_vars, command, api_key, api_secret, account_reply, connected,
                   ticker_reply, current_price>>

\* response = order_manager.place_order(...)
CliPlaceOrder ==
    /\ cli_pc = "PlaceOrder"
    /\ PlaceOrderStep
    /\ UNCHANGED <<cli_vars, sign_vars>>

\* the end of the order command: print_order_summary and a normal return,
\* or one of the two except clauses, both of which sys.exit(1)
order_exit_status(result) == IF result.kind = "return" THEN 0 ELSE 1

FinishOrder ==
    /\ cli_pc = "PlaceOrder"
    /\ pc = "Done"
    /\ cli_pc' = "Exited"
    /\ exit_status' = order_exit_status(outcome)
    /\ UNCHANGED <<place_order_vars, sign_vars, command, api_key, api_secret, answer,
                   account_reply, connected, ticker_reply, current_price>>

\* test: price = client.get_current_price('BTCUSDT'); if price: print(...)
test_exit_status(current) == 0

TestPrice ==
    /\ cli_pc = "TestPrice"
    /\ \E reply \in TickerReplies :
          /\ ticker_reply' = reply
          /\ current_price' = get_current_price(reply)
          /\ calls' = Append(calls, "get_current_price")
          /\ exit_status' = test_exit_status(get_current_price(reply))
    /\ cli_pc' = "Exited"
    /\ UNCHANGED <<inputs, pc, params, symbol_info, requests, upstream, logged, outcome,
                   sign_vars, command, api_key, api_secret, answer, account_reply,
                   connected>>

\* price: if current_price: print(price) else: print("Failed to fetch price");
\* neither branch exits
price_exit_status(current) == IF Truthy(current) THEN 0 ELSE 0

FetchPrice ==
    /\ cli_pc = "FetchPrice"
    /\ \E reply \in TickerReplies :
          /\ ticker_reply' = reply
          /\ current_price' = get_current_price(reply)
          /\ calls' = Append(calls, "get_current_price")
          /\ exit_status' = price_exit_status(get_current_price(reply))
    /\ cli_pc' = "Exited"
    /\ UNCHANGED <<inputs, pc, params, symbol_info, requests, upstream, logged, outcome,
                   sign_vars, command, api_key, api_secret, answer, account_reply,
                   connected>>

CliNext ==
    \/ GetCredentials
    \/ TestConnection
    \/ Confirm
    \/ CliPlaceOrder
    \/ FinishOrder
    \/ TestPrice
    \/ FetchPrice

CliSpec == CliInit /\ [][CliNext]_vars

(***************************************************************************)
(* bot/client.py: _generate_signature applied to parameter mappings, and   *)
(* the request test_connection builds with it                              *)
(***************************************************************************)

\* most items of a signed mapping
MaxParams == 2

ParamKeys == {<<"a">>, <<"b">>, <<"c">>}

ParamValues == {<<"1">>, <<"2">>, <<"1","&","b","=","2">>}

\* dicts of at most MaxParams items: sequences of items with unique keys
ParamMappings ==
    {m \in SeqsUpTo(ParamKeys \X ParamValues, MaxParams) :
        \A i, j \in 1..Len(m) : m[i][1] = m[j][1] => i = j}

SignInit ==
    /\ sign_secret \in {<<"s","e","c","r","e","t">>, <<"k">>}
    /\ first_params \in ParamMappings
    /\ first_signature = None
    /\ second_params = <<>>
    /\ second_signature = None
    /\ account_params = <<>>
    /\ symbol = BTCUSDT
    /\ side = BUY
    /\ order_type = MARKET
    /\ quantity = <<"1">>
    /\ price = None
    /\ pc = "NotCalled"
    /\ params = NoneDict
    /\ symbol_info = NoneDict
    /\ calls = <<>>
    /\ requests = <<>>
    /\ upstream = NoReply
    /\ logged = NoneDict
    /\ outcome = Pending
    /\ CliNotRunning

\* signature = self._generate_signature(first_params)
SignFirst ==
    /\ first_signature = None
    /\ first_signature' = generate_signature(sign_secret, first_params)
    /\ UNCHANGED <<place_order_vars, cli_vars, sign_secret, first_params, second_params,
                   second_signature, account_params>>

\* a later call with another mapping and the same secret
SignSecond ==
    /\ first_signature # None
    /\ second_signature = None
    /\ \E m \in ParamMappings :
          /\ second_params' = m
          /\ second_signature' = generate_signature(sign_secret, m)
    /\ UNCHANGED <<place_order_vars, cli_vars, sign_secret, first_params, first_signature,
                   account_params>>

\* test_connection lines 70-72
SignAccountRequest ==
    /\ account_params = <<>>
    /\ \E now \in 1..MaxTimestamp : account_params' = account_request(sign_secret, now)
    /\ UNCHANGED <<place_order_vars, cli_vars, sign_secret, first_params, first_signature,
                   second_params, second_signature>>

SignNext == SignFirst \/ SignSecond \/ SignAccountRequest

SignSpec == SignInit /\ [][SignNext]_vars

(***************************************************************************)
(* Properties                                                              *)
(***************************************************************************)

OrderMethods == {"place_market_order", "place_limit_order"}

OrderCalls == {i \in 1..Len(calls) : calls[i] \in OrderMethods}

SymbolInfoCalls == {i \in 1..Len(calls) : calls[i] = "get_symbol_info"}

\* place_order ended by raising a ValidationError
RaisedValidationError ==
    /\ pc = "Done"
    /\ outcome.kind = "raise"
    /\ outcome.exc.cls = "ValidationError"

\* validate_order_params raised: the call ended before any connector call
ValidationFailed == RaisedValidationError /\ params = NoneDict

\* get_symbol_info returned a SymbolInfo whose status is exactly TRADING
InfoIsTrading ==
    /\ symbol_info # NoneDict
    /\ "status" \in DOMAIN symbol_info
    /\ symbol_info.status = "TRADING"

PriceAbsent == price = None \/ price = <<>>

\* C1: no order-creation call is made unless get_symbol_info returned a
\* present SymbolInfo whose status is exactly TRADING; when the info is
\* absent or has another status, the call has ended with a rejection and
\* no order request was issued.
C1_NoOrderUnlessTrading ==
    /\ (OrderCalls # {} \/ requests # <<>>) => (SymbolInfoCalls # {} /\ InfoIsTrading)
    /\ (SymbolInfoCalls # {} /\ ~InfoIsTrading) =>
          (RaisedValidationError /\ requests = <<>> /\ OrderCalls = {})

C1_Witness ==
    /\ pc = "Done"
    /\ SymbolInfoCalls # {}
    /\ symbol_info # NoneDict
    /\ DictGet(symbol_info, "status", "None") = "BREAK"
    /\ params.type = MARKET
    /\ outcome.kind = "raise"
    /\ requests = <<>>

\* C2: a call whose quantity does not parse or is <= 0 fails with a
\* validation failure, and no connector method has been invoked by then.
C2_BadQuantityFailsBeforeNetwork ==
    (ParseFloat(quantity) = NotANumber \/ LeqZero(ParseFloat(quantity))) =>
        /\ calls = <<>>
        /\ requests = <<>>
        /\ pc \in {"Received", "Done"}
        /\ pc = "Done" => ValidationFailed

C2_Witness ==
    /\ pc = "Done"
    /\ quantity = <<"-","1">>
    /\ validate_symbol(symbol).ok /\ validate_side(side).ok /\ validate_order_type(order_type).ok
    /\ ValidationFailed
    /\ outcome.exc.msg = "Quantity must be greater than 0"
    /\ calls = <<>>

\* C3: with symbol, side, type and quantity passing their own rules,
\* LIMIT without a price fails, MARKET with a non-empty price fails, LIMIT
\* with a valid positive price succeeds, MARKET without a price succeeds;
\* a returned record has a 'price' entry iff its type is LIMIT.
C3_PriceIffLimit ==
    pc # "Received" =>
        /\ ( /\ validate_symbol(symbol).ok /\ validate_side(side).ok
             /\ validate_order_type(order_type).ok /\ validate_quantity(quantity).ok ) =>
              LET t == Strip(Upper(order_type))
              IN  /\ (t = LIMIT /\ PriceAbsent) => (params = NoneDict /\ outcome.kind = "raise")
                  /\ (t = MARKET /\ ~PriceAbsent) => (params = NoneDict /\ outcome.kind = "raise")
                  /\ (t = LIMIT /\ ~PriceAbsent /\ IsFinitePositive(ParseFloat(price))) =>
                        params # NoneDict
                  /\ (t = MARKET /\ PriceAbsent) => params # NoneDict
        /\ params # NoneDict => ("price" \in DOMAIN params <=> params.type = LIMIT)

C3_Witness ==
    /\ params # NoneDict
    /\ params.type = LIMIT
    /\ "price" \in DOMAIN params
    /\ params.price = [cls |-> "finite", neg |-> FALSE, num |-> 25005, den |-> 10]

\* C4: validate_quantity and validate_price accept a value only if it parses
\* as a finite number strictly greater than zero, so every quantity and
\* every price of a validated record is finite and positive.
C4_OnlyFinitePositiveAccepted ==
    params # NoneDict =>
        /\ IsFinitePositive(params.quantity)
        /\ "price" \in DOMAIN params => IsFinitePositive(params.price)

ValidatorMessages ==
    {"Symbol cannot be empty", "Symbol must end with 'USDT' for USDT-M futures",
     "Symbol is too short", "Side must be 'BUY' or 'SELL'",
     "Order type must be 'MARKET' or 'LIMIT'", "Quantity must be a valid number",
     "Quantity must be greater than 0", "Price must be a valid number",
     "Price must be greater than 0", "Price is required for LIMIT orders",
     "Price should not be specified for MARKET orders"}

\* rule 6 of the validator, on a normalized type
CrossFieldFailure(t) ==
    IF t = LIMIT /\ PriceAbsent THEN "Price is required for LIMIT orders"
    ELSE IF t = MARKET /\ ~PriceAbsent THEN "Price should not be specified for MARKET orders"
    ELSE ""

\* The failure of the earliest violated rule, in the order symbol, side,
\* type, quantity, price, cross-field ("" when no rule is violated).
FirstFailureInRuleOrder ==
    IF ~validate_symbol(symbol).ok THEN validate_symbol(symbol).msg
    ELSE IF ~validate_side(side).ok THEN validate_side(side).msg
    ELSE IF ~validate_order_type(order_type).ok THEN validate_order_type(order_type).msg
    ELSE IF ~validate_quantity(quantity).ok THEN validate_quantity(quantity).msg
    ELSE IF ~validate_price(price).ok THEN validate_price(price).msg
    ELSE CrossFieldFailure(Strip(Upper(order_type)))

\* The same order, with the price format rule applied to LIMIT orders only
\* and after the cross-field rule.
FirstFailureCrossFieldBeforePrice ==
    IF ~validate_symbol(symbol).ok THEN validate_symbol(symbol).msg
    ELSE IF ~validate_side(side).ok THEN validate_side(side).msg
    ELSE IF ~validate_order_type(order_type).ok THEN validate_order_type(order_type).msg
    ELSE IF ~validate_quantity(quantity).ok THEN validate_quantity(quantity).msg
    ELSE IF CrossFieldFailure(Strip(Upper(order_type))) # ""
    THEN CrossFieldFailure(Strip(Upper(order_type)))
    ELSE IF Strip(Upper(order_type)) = LIMIT /\ ~validate_price(price).ok
    THEN validate_price(price).msg
    ELSE ""

\* C5 as stated: the failure reported is that of the earliest violated rule
\* in the order symbol, side, type, quantity, price, cross-field; a provided
\* price that is non-numeric or <= 0 yields the price-format failure before
\* the cross-field rule, whatever the order type.
C5_FirstFailureInRuleOrder ==
    pc # "Received" =>
        IF FirstFailureInRuleOrder = ""
        THEN params # NoneDict
        ELSE ValidationFailed /\ outcome.exc.msg = FirstFailureInRuleOrder

\* C5 amended: the rules are applied in the order symbol, side, type,
\* quantity, cross-field, price format; the price format is checked for
\* LIMIT orders only, so a MARKET order with any provided price, well-formed
\* or not, fails with the price-not-allowed failure.
C5_CrossFieldBeforePriceFormat ==
    pc # "Received" =>
        IF FirstFailureCrossFieldBeforePrice = ""
        THEN params # NoneDict
        ELSE ValidationFailed /\ outcome.exc.msg = FirstFailureCrossFieldBeforePrice

C5_Witness ==
    /\ pc = "Done"
    /\ Strip(Upper(order_type)) = MARKET
    /\ price = <<"a","b","c">>
    /\ ~validate_price(price).ok
    /\ ValidationFailed
    /\ outcome.exc.msg = "Price should not be specified for MARKET orders"

\* C6: a symbol whose trimmed, upper-cased form does not end with USDT fails
\* with a symbol failure whatever side, type, quantity and price are (the
\* suffix failure, or the empty-symbol failure for the empty string); a
\* symbol that ends with USDT but is shorter than 5 characters after
\* normalization fails with the too-short symbol failure.
C6_SymbolSuffixRequired ==
    pc # "Received" =>
        LET s == Strip(Upper(symbol))
        IN  /\ ~EndsWith(s, USDT) =>
                  /\ ValidationFailed
                  /\ outcome.exc.msg =
                        IF symbol = <<>> THEN "Symbol cannot be empty"
                        ELSE "Symbol must end with 'USDT' for USDT-M futures"
            /\ (EndsWith(s, USDT) /\ Len(s) < 5) =>
                  (ValidationFailed /\ outcome.exc.msg = "Symbol is too short")

C6_Witness ==
    /\ pc = "Done"
    /\ symbol = <<"b","t","c","U","S","D">>
    /\ ~validate_side(side).ok
    /\ ~validate_quantity(quantity).ok
    /\ ValidationFailed
    /\ outcome.exc.msg = "Symbol must end with 'USDT' for USDT-M futures"

MarketShape(r) ==
    /\ DOMAIN r = {"symbol", "side", "type", "quantity", "timestamp"}
    /\ r.type = MARKET

LimitShape(r) ==
    /\ DOMAIN r = {"symbol", "side", "type", "quantity", "price", "timeInForce", "timestamp"}
    /\ r.type = LIMIT
    /\ r.timeInForce = "GTC"

\* C7: a place_order call is a single pass: get_symbol_info is called at
\* most once and at most one order-creation request is issued, whatever the
\* exchange answered; when validation and the tradability check pass,
\* exactly one is issued, of the MARKET shape iff the validated type is
\* MARKET and of the LIMIT shape (price, timeInForce GTC) otherwise.
C7_SinglePassDispatch ==
    /\ Cardinality(SymbolInfoCalls) <= 1
    /\ Cardinality(OrderCalls) <= 1
    /\ Len(requests) <= 1
    /\ Len(requests) = Cardinality(OrderCalls)
    /\ (pc = "Done" /\ params # NoneDict /\ SymbolInfoCalls # {} /\ InfoIsTrading) =>
          /\ Len(requests) = 1
          /\ requests[1].symbol = params.symbol
          /\ requests[1].side = params.side
          /\ requests[1].quantity = params.quantity
          /\ requests[1].timestamp \in 1..MaxTimestamp
          /\ IF params.type = MARKET
             THEN MarketShape(requests[1]) /\ calls[Len(calls)] = "place_market_order"
             ELSE /\ LimitShape(requests[1])
                  /\ requests[1].price = params.price
                  /\ calls[Len(calls)] = "place_limit_order"

C7_Witness ==
    /\ pc = "Done"
    /\ params # NoneDict
    /\ params.type = LIMIT
    /\ Len(requests) = 1
    /\ LimitShape(requests[1])
    /\ upstream.kind = "raise"
    /\ calls = <<"get_symbol_info", "place_limit_order">>

\* C8: an error raised by the connector's order-creation call ends
\* place_order with that same error, its class, status code and message
\* unchanged, and no order result is returned or logged; a 400
\* "Invalid symbol." rejection reaches the caller as a BinanceAPIException
\* carrying 400 and that message.
C8_ConnectorErrorPropagates ==
    upstream.kind = "raise" =>
        /\ pc = "Done"
        /\ outcome.kind = "raise"
        /\ outcome.exc = upstream.exc
        /\ outcome.value = NoneDict
        /\ logged = NoneDict

C8_Witness ==
    /\ pc = "Done"
    /\ upstream.kind = "raise"
    /\ upstream.exc = Exc("BinanceAPIException", 400, "Invalid symbol.", <<>>)
    /\ params.type = MARKET
    /\ outcome.kind = "raise"
    /\ outcome.exc.cls = "BinanceAPIException"
    /\ outcome.exc.status_code = 400
    /\ outcome.exc.msg = "Invalid symbol."

\* place_order ended on the tradability check
TradabilityRejected ==
    /\ pc = "Done"
    /\ calls = <<"get_symbol_info">>
    /\ outcome.kind = "raise"

\* C9 as stated: a tradability rejection reaches the caller as a failure of
\* another kind than a local input ValidationFailure.
C9_TradabilityKindDistinct ==
    TradabilityRejected => outcome.exc.cls # "ValidationError"

\* C9 amended: a tradability rejection reaches the caller as a
\* ValidationError, the class of the local input validation failures, and
\* differs from them by its message only; the message of an absent symbol
\* differs from the message of a symbol that is not trading.
C9_TradabilityDistinctByMessageOnly ==
    /\ TradabilityRejected =>
          /\ outcome.exc.cls = "ValidationError"
          /\ outcome.exc.arg = params.symbol
          /\ outcome.exc.msg \notin ValidatorMessages
          /\ outcome.exc.msg =
                IF symbol_info = NoneDict
                THEN "Symbol {} not found or not tradable"
                ELSE "Symbol {} is not currently trading"
    /\ ValidationFailed => outcome.exc.msg \in ValidatorMessages

C9_Witness ==
    /\ TradabilityRejected
    /\ symbol_info # NoneDict
    /\ outcome.exc.cls = "ValidationError"
    /\ outcome.exc.msg = "Symbol {} is not currently trading"

\* C10 as stated: on success the returned record has every field of
\* ResponseFields, a field absent from the upstream response holding the
\* sentinel default.
C10_ReturnedRecordNormalized ==
    outcome.kind = "return" =>
        /\ ResponseFields \subseteq DOMAIN outcome.value
        /\ \A f \in ResponseFields \ DOMAIN upstream.body : outcome.value[f] = "N/A"

\* C10 amended: on success place_order returns the exchange's response
\* unchanged, so a field absent upstream is absent from the returned
\* record; the sentinel 'N/A' stands for an absent field only in the lines
\* _log_order_response writes.
C10_ReturnsRawResponse ==
    outcome.kind = "return" =>
        /\ upstream.kind = "response"
        /\ outcome.value = upstream.body
        /\ \A f \in ResponseFields :
              logged[f] = IF f \in DOMAIN upstream.body THEN upstream.body[f] ELSE "N/A"

C10_Witness ==
    /\ pc = "Done"
    /\ outcome.kind = "return"
    /\ "timeInForce" \notin DOMAIN upstream.body
    /\ "timeInForce" \notin DOMAIN outcome.value
    /\ logged["timeInForce"] = "N/A"

\* C11: test_connection returns True iff the account request completed
\* with HTTP status 200; for every other status and for every exception
\* raised while building or sending the request it returns False; it never
\* raises.
C11_TrueOnlyOn200 ==
    account_reply # NoHttpReply =>
        /\ connected.kind = "return"
        /\ connected.value =
              (account_reply.kind = "response" /\ account_reply.status_code = 200)

C11_Witness ==
    /\ account_reply.kind = "response"
    /\ account_reply.status_code = 204
    /\ connected = Return(FALSE)
    /\ cli_pc = "Exited"

\* a step of the command ended in an error
MissingCredentials == api_key \in {None, <<>>} \/ api_secret \in {None, <<>>}

ConnectionRefused == account_reply # NoHttpReply /\ connected # Return(TRUE)

PlacementFailed == pc = "Done" /\ outcome.kind = "raise"

PriceAbsent_Lookup == ticker_reply # NoHttpReply /\ current_price = NoneFloat

\* C12: a command exits with a non-zero status whenever validation fails or
\* a step returns an error: missing credentials, a false test_connection,
\* a ValidationError, a tradability rejection, a placement error, and a
\* price lookup that returns absent.
C12_NonZeroExitOnAnyError ==
    cli_pc = "Exited" =>
        /\ MissingCredentials => exit_status # 0
        /\ ConnectionRefused => exit_status # 0
        /\ PlacementFailed => exit_status # 0
        /\ PriceAbsent_Lookup => exit_status # 0

\* the part of C12 the commands meet: every error but an absent price
C12_NonZeroExitExceptPrice ==
    cli_pc = "Exited" =>
        /\ MissingCredentials => exit_status = 1
        /\ ConnectionRefused => exit_status = 1
        /\ PlacementFailed => exit_status = 1

\* place_order has been entered, or one of its requests was made
PlaceOrderInvoked ==
    \/ pc # "NotCalled"
    \/ params # NoneDict
    \/ SymbolInfoCalls # {}
    \/ OrderCalls # {}
    \/ requests # <<>>

\* C13: in the order command place_order, and so any order-creation
\* request, is invoked only after the operator answered the prompt
\* affirmatively; when the operator declines, no validation, symbol lookup
\* or order request happens and the command ends without placing an order.
C13_ConfirmGatesDispatch ==
    /\ PlaceOrderInvoked => (command = "order" /\ answer = "yes")
    /\ answer = "no" =>
          /\ ~PlaceOrderInvoked
          /\ cli_pc = "Exited"
          /\ exit_status = 0
          /\ outcome = Pending

C13_Witness ==
    /\ command = "order"
    /\ answer = "no"
    /\ cli_pc = "Exited"
    /\ connected = Return(TRUE)
    /\ validate_order_params(symbol, side, order_type, quantity, price).ok
    /\ requests = <<>>

\* the order command's input violates a rule of the validator
InputInvalid == command = "order" /\ FirstFailureCrossFieldBeforePrice # ""

\* C14 as stated: in a run of the order command whose input fails
\* validation, no HTTP request to the exchange has been issued at any point.
C14_NoRequestWhenInvalid ==
    (InputInvalid /\ pc = "Done") => calls = <<>>

\* C14 amended: in a run of the order command whose input fails validation
\* no instrument metadata, ticker or order request is ever issued; the one
\* HTTP request of such a run is the account check of test_connection,
\* which precedes validation and has answered 200 when validation fails.
C14_OnlyAccountCheckWhenInvalid ==
    InputInvalid =>
        /\ calls \in {<<>>, <<"test_connection">>}
        /\ requests = <<>>
        /\ symbol_info = NoneDict
        /\ ticker_reply = NoHttpReply
        /\ pc \in {"NotCalled", "Received", "Done"}
        /\ pc = "Done" =>
              /\ ValidationFailed
              /\ calls = <<"test_connection">>
              /\ account_reply.status_code = 200

C14_Witness ==
    /\ command = "order"
    /\ quantity = <<"a","b","c">>
    /\ validate_symbol(symbol).ok
    /\ cli_pc = "Exited"
    /\ exit_status = 1
    /\ ValidationFailed
    /\ calls = <<"test_connection">>

\* the two mappings hold the same items in a different order
Reordered(m1, m2) ==
    /\ Len(m1) = Len(m2)
    /\ {m1[i] : i \in 1..Len(m1)} = {m2[i] : i \in 1..Len(m2)}
    /\ m1 # m2

A1 == <<<<"a">>, <<"1">>>>
B2 == <<<<"b">>, <<"2">>>>

\* C15: for a fixed secret the signature is a function of the mapping, the
\* parameters are encoded in insertion order with no re-ordering, signing
\* {a:1,b:2} differs from signing {b:2,a:1} (and so for every reordering),
\* and test_connection signs the parameters before the 'signature' entry is
\* added to them.
C15_SignatureOrderSensitive ==
    /\ (first_signature # None /\ second_signature # None) =>
          /\ first_params = second_params => first_signature = second_signature
          /\ Reordered(first_params, second_params) => first_signature # second_signature
    /\ (first_signature # None /\ first_params = <<A1, B2>>) =>
          first_signature = <<"hmac-sha256", sign_secret, <<"a","=","1","&","b","=","2">>>>
    /\ (first_signature # None /\ first_params = <<B2, A1>>) =>
          first_signature = <<"hmac-sha256", sign_secret, <<"b","=","2","&","a","=","1">>>>
    /\ account_params # <<>> =>
          /\ Len(account_params) = 2
          /\ account_params[1][1] = TIMESTAMP
          /\ account_params[2][1] = SIGNATURE
          /\ account_params[2][2] =
                <<"hmac-sha256", sign_secret,
                  TIMESTAMP \o <<"=">> \o account_params[1][2]>>

C15_Witness ==
    /\ first_params = <<A1, B2>>
    /\ second_params = <<B2, A1>>
    /\ first_signature # None
    /\ second_signature # None
    /\ first_signature # second_signature
    /\ account_params # <<>>

====
